---- MODULE Spec2Model ----
(***************************************************************************)
(* MemoDiary client runtime (static/script.js): request gate, SSE stream   *)
(* decoding, speech capture and the text-to-speech playback queue.         *)
(* Text is modelled as sequences of one-character strings so that trim,    *)
(* split, prefix tests and the sentence regular expression are computed    *)
(* the way the JavaScript computes them.                                   *)
(***************************************************************************)
EXTENDS Integers, Sequences, FiniteSets, TLC

\* ------------------------------------------------------------------ text
NL == "\n"

\* null for the session id and the stored strings: no characters.
NULL == <<>>

\* abortController = null
NoController == 0

\* window.currentAudio before the first segment is played.
NoAudio == [text |-> <<>>, state |-> "none", settled |-> TRUE]

\* let silenceTimer = null: the handle before any silence timer was armed.
NoTimer == 0

IsSpace(c) == c \in {" ", NL}

IsTerm(c) == c \in {".", "!", "?"}

RECURSIVE TrimStart(_)
TrimStart(s) ==
    IF s = <<>> THEN s
    ELSE IF IsSpace(Head(s)) THEN TrimStart(Tail(s)) ELSE s

RECURSIVE TrimEnd(_)
TrimEnd(s) ==
    IF s = <<>> THEN s
    ELSE IF IsSpace(s[Len(s)]) THEN TrimEnd(SubSeq(s, 1, Len(s) - 1)) ELSE s

Trim(s) == TrimEnd(TrimStart(s))

StartsWith(s, p) == Len(s) >= Len(p) /\ SubSeq(s, 1, Len(p)) = p

SetMin(S) == CHOOSE x \in S : \A y \in S : x <= y

SetMax(S) == CHOOSE x \in S : \A y \in S : x >= y

\* String.prototype.indexOf, 1-based; 0 when the pattern does not occur.
IndexOf(s, p) ==
    LET hits == {i \in 1..(Len(s) - Len(p) + 1) : SubSeq(s, i, i + Len(p) - 1) = p}
    IN IF hits = {} THEN 0 ELSE SetMin(hits)

\* String.prototype.replace with a string pattern: the first occurrence only.
ReplaceFirst(s, p, r) ==
    LET i == IndexOf(s, p)
    IN IF i = 0 THEN s
       ELSE SubSeq(s, 1, i - 1) \o r \o SubSeq(s, i + Len(p), Len(s))

\* String.prototype.split with a non-empty string separator.
RECURSIVE Split(_, _)
Split(s, sep) ==
    LET i == IndexOf(s, sep)
    IN IF i = 0 THEN <<s>>
       ELSE <<SubSeq(s, 1, i - 1)>> \o Split(SubSeq(s, i + Len(sep), Len(s)), sep)

\* replace(/\s+/g, ' '): every run of whitespace becomes one space.
RECURSIVE CollapseWs(_)
CollapseWs(s) ==
    IF s = <<>> THEN s
    ELSE IF IsSpace(Head(s))
         THEN <<" ">> \o CollapseWs(TrimStart(s))
         ELSE <<Head(s)>> \o CollapseWs(Tail(s))

RECURSIVE Concat(_)
Concat(ss) == IF ss = <<>> THEN <<>> ELSE Head(ss) \o Concat(Tail(ss))

S_DATA == <<"d", "a", "t", "a", ":", " ">>

S_EVENT == <<"e", "v", "e", "n", "t", ":", " ">>

S_SESSION_ID == <<"s", "e", "s", "s", "i", "o", "n", "_", "i", "d">>

S_MESSAGE == <<"m", "e", "s", "s", "a", "g", "e">>

S_DONE == <<"[", "D", "O", "N", "E", "]">>

\* --------------------------------------------------- sentence boundary scan
\* sentenceBuffer.match(/([^\.!\?]+[\.!\?]+)\s/): both quantifiers are greedy and
\* the character classes are disjoint, so a match at p is the maximal run of
\* non-terminators from p, the maximal run of terminators after it, and one
\* whitespace character; the leftmost p wins.
NonTermRunEnd(s, i) ==
    LET c == {j \in i..Len(s) : \A k \in i..j : ~IsTerm(s[k])}
    IN IF c = {} THEN i - 1 ELSE SetMax(c)

TermRunEnd(s, i) ==
    LET c == {j \in i..Len(s) : \A k \in i..j : IsTerm(s[k])}
    IN IF c = {} THEN i - 1 ELSE SetMax(c)

MatchAt(s, p) ==
    LET a == NonTermRunEnd(s, p)
        b == TermRunEnd(s, a + 1)
    IN a >= p /\ b >= a + 1 /\ b + 1 <= Len(s) /\ IsSpace(s[b + 1])

\* match[1] of the regular expression, or <<>> when there is no match.
SentenceMatch(s) ==
    LET ps == {p \in 1..Len(s) : MatchAt(s, p)}
    IN IF ps = {} THEN <<>>
       ELSE LET p == SetMin(ps)
            IN SubSeq(s, p, TermRunEnd(s, NonTermRunEnd(s, p) + 1))

\* ------------------------------------------------------------ stream decoder
\* The inner loop over the rows of one block: the last matching row wins for
\* both the event type and the data payload (plain assignment, trimmed).
RECURSIVE ParseRows(_, _)
ParseRows(rows, acc) ==
    IF rows = <<>> THEN acc
    ELSE LET row == Head(rows)
             nxt == IF StartsWith(row, S_EVENT)
                    THEN [acc EXCEPT !.eventType = Trim(ReplaceFirst(row, S_EVENT, <<>>))]
                    ELSE IF StartsWith(row, S_DATA)
                    THEN [acc EXCEPT !.dataContent = Trim(ReplaceFirst(row, S_DATA, <<>>))]
                    ELSE acc
         IN ParseRows(Tail(rows), nxt)

ParseBlock(block) ==
    ParseRows(Split(block, <<NL>>), [eventType |-> S_MESSAGE, dataContent |-> <<>>])

\* The state the read loop of sendMessageToAI carries from block to block:
\*   messageDiv      whether the assistant bubble has been created
\*   aiFullText      the running assistant text
\*   sentenceBuffer  text not yet queued for speech
\*   sessionId, memo the global session id and localStorage['memo_session_id']
\*   pushed          the segments pushed to audioQueue, in order
\*   events          the text-delta and session-id events acted on, in order
DecodeInit(sid, memo) ==
    [messageDiv |-> FALSE, aiFullText |-> <<>>, sentenceBuffer |-> <<>>,
     sessionId |-> sid, memo |-> memo, pushed |-> <<>>, events |-> <<>>]

\* The TTS streaming step for one text delta while unmuted.
SpeakDelta(d, data) ==
    LET buf == d.sentenceBuffer \o data
        completedSentence == SentenceMatch(buf)
    IN IF completedSentence = <<>>
       THEN [d EXCEPT !.sentenceBuffer = buf]
       ELSE [d EXCEPT !.pushed = Append(@, completedSentence),
                      !.sentenceBuffer =
                          TrimStart(ReplaceFirst(buf, completedSentence, <<>>))]

\* The body of `for (const block of blocks)`.
ProcessBlock(d, block, muted) ==
    IF Trim(block) = <<>> THEN d
    ELSE LET d1 == [d EXCEPT !.messageDiv = TRUE]
             b  == ParseBlock(block)
         IN IF b.eventType = S_SESSION_ID
            THEN IF b.dataContent # <<>>
                 THEN [d1 EXCEPT !.sessionId = b.dataContent,
                                 !.memo = b.dataContent,
                                 !.events = Append(@, <<"session_id", b.dataContent>>)]
                 ELSE d1
            ELSE IF b.dataContent = S_DONE \/ b.dataContent = <<>> THEN d1
            ELSE LET d2 == [d1 EXCEPT !.aiFullText = @ \o b.dataContent,
                                      !.events = Append(@, <<"text", b.dataContent>>)]
                 IN IF muted THEN d2 ELSE SpeakDelta(d2, b.dataContent)

RECURSIVE ProcessBlocks(_, _, _)
ProcessBlocks(d, blocks, muted) ==
    IF blocks = <<>> THEN d
    ELSE ProcessBlocks(ProcessBlock(d, Head(blocks), muted), Tail(blocks), muted)

\* One iteration of the read loop with a value: decode, split on the blank
\* line, process every block of this read.  Nothing is carried to the next read.
ProcessChunk(d, chunk, muted) ==
    ProcessBlocks(d, Split(chunk, <<NL, NL>>), muted)

\* The loop's end without the final flush: the residue is never queued.
FinalFlush_Dropped(d, muted) == d

\* The final flush of the TTS buffer after the loop.
FinalFlush(d, muted) ==
    IF Trim(d.sentenceBuffer) # <<>> /\ ~muted
    THEN [d EXCEPT !.pushed = Append(@, d.sentenceBuffer)]
    ELSE d

\* A whole response body delivered as one read, then end of stream.
RECURSIVE DecodeReads(_, _, _)
DecodeReads(d, reads, muted) ==
    IF reads = <<>> THEN d
    ELSE DecodeReads(ProcessChunk(d, Head(reads), muted), Tail(reads), muted)

DecodeWhole(body) == DecodeReads(DecodeInit(NULL, NULL), <<body>>, FALSE)

\* ------------------------------------------------------------- constants
COOLDOWN_MS == 2000

SILENCE_TIMEOUT == 1500

TIMEOUT_MS == 60000

\* Bounds of the model.
MaxExchanges == 2

MaxReads == 1

MaxResults == 1

MaxCaptureResults == 2

MaxRetryExchanges == 4

MaxSegmentReads == 3

MaxStoredMessages == 2

MaxRecordings == 2

\* The clock advances in steps of the program's own durations.
TimeSteps == {SILENCE_TIMEOUT, TIMEOUT_MS}

\* userInput.value at the time of a send click or Enter key press.
TypedInputs == {<<" ", "a">>, <<"h", "i", " ">>}

\* Recognition result events: the final fragments and the interim fragment.
ResultEvents ==
    {[finals |-> <<<<"I">>>>, interim |-> <<>>],
     [finals |-> <<>>, interim |-> <<"o", "k">>],
     [finals |-> <<<<"I">>>>, interim |-> <<"o", "k">>]}

\* A result event that carries white space only.
BlankEvents == {[finals |-> <<>>, interim |-> <<" ">>]}

\* Reads of the /api/chat response body.
Chunks ==
    {S_DATA \o <<"A", ".", " ", "b", NL, NL>>,
     S_DATA \o <<"c", "?", NL, NL>>,
     S_EVENT \o S_SESSION_ID \o <<NL>> \o S_DATA \o <<"s", "1", NL, NL>>}

\* Reads that carry one text delta each; only the last holds a sentence end.
SegmentChunks ==
    {S_DATA \o <<"x", NL, NL>>,
     S_DATA \o <<"y", NL, NL>>,
     S_DATA \o <<"z", ".", " ", "w", NL, NL>>}

\* The reads offered where the content of the reply does not matter.
GateChunks == {S_DATA \o <<"o", "k", NL, NL>>}

\* HTTP statuses of the /api/chat response.
Statuses == {200, 429, 503, 500}

VARIABLES
    sinceLastRequest,  \* Date.now() - lastRequestTime, saturated at COOLDOWN_MS
    lastUserText,      \* let lastUserText
    isProcessing,      \* let isProcessing (the busy flag)
    inputEnabled,      \* !userInput.disabled, !sendButton.disabled
    abortController,   \* let abortController: the exchange that made it
    aborted,           \* exchanges whose AbortController has been aborted
    exchanges,         \* the activations of sendMessageToAI and their locals
    timeoutTimers,     \* pending setTimeout(() => abortController.abort())
    retryButtons,      \* the #retry-btn-active elements in document order,
                       \* each with the number of requests its clicks started
    chatMessages,      \* let chatMessages
    sessionId,         \* let sessionId
    startup,           \* initApp: the /api/startup call of the page load
    localStorage,      \* the keys of localStorage the client writes
    isListening,       \* let isListening
    transcriptBuffer,  \* let transcriptBuffer
    latestInterim,     \* let latestInterim
    silenceTimer,      \* let silenceTimer: the id setTimeout returned last
    silenceTimers,     \* the silence timers pending in the browser: id, time left,
                       \* and whether the client was listening when it was armed
    recognition,       \* state of the SpeechRecognition engine
    results,           \* number of result events delivered
    heard,             \* history of the capture session: the final fragments
                       \* and the interim fragment the engine delivered since
                       \* the session started, the calls of
                       \* submitVoiceInput since the last of these events,
                       \* and the utterances submitted since the session started
    isMuted,           \* let isMuted
    audioQueue,        \* const audioQueue
    isPlayingAudio,    \* let isPlayingAudio
    currentAudio,      \* window.currentAudio
    synth,             \* utterances queued in window.speechSynthesis
    queueLog,          \* history of the playback queue since the page loaded:
                       \* segments pushed, segments shifted off, calls of
                       \* playAudioChunk, and promises of it that settled
    sinceAccept,       \* history: time since the last accepted submission,
                       \* saturated at COOLDOWN_MS
    lastAccept,        \* history: the last accepted submission, [gap, origin, text],
                       \* and the guard that refused the latest typed submission
                       \* since ("none": none was refused)
    lastExit,          \* history: how the last returned exchange ended, [path,
                       \* status, shown, rendered]: the error caught, the HTTP
                       \* status received (0: none), the error code shown and
                       \* the text it had received
    dBody, dRest, dState, dDone,  \* the stream decoder run on its own
    mediaRecorder,     \* let mediaRecorder: the recording whose recorder it holds
    audioChunks,       \* let audioChunks: the sizes of the chunks recorded
    recordings         \* the activations of startRecording, each with its
                       \* stream and its MediaRecorder

\* The activations of sendMessageToAI a behaviour has room for.
ExchangeIds == DOMAIN exchanges

gateVars == <<sinceLastRequest, lastUserText, isProcessing, inputEnabled,
              abortController, aborted, exchanges, timeoutTimers, retryButtons,
              chatMessages, sessionId, startup, localStorage, sinceAccept,
              lastAccept, lastExit>>

captureVars == <<isListening, transcriptBuffer, latestInterim, silenceTimer, silenceTimers,
                 recognition, results, heard>>

\* Nothing delivered by the engine and no call of submitVoiceInput yet.
NoSpeech == [finals |-> <<>>, interim |-> <<>>, stops |-> 0, sent |-> 0]

queueVars == <<isMuted, audioQueue, isPlayingAudio, currentAudio, synth, queueLog>>

\* Nothing pushed and nothing played yet.
NoQueueLog == [pushed |-> 0, shifted |-> 0, played |-> 0, settled |-> 0]

decoderVars == <<dBody, dRest, dState, dDone>>

recorderVars == <<mediaRecorder, audioChunks, recordings>>

\* The activations of startRecording a behaviour has room for.
RecordingIds == 1..MaxRecordings

NoRecorder == 0

\* An activation of startRecording that has not been called: pc is where it
\* stands, tracks the state of the tracks of its stream.
NoRecording == [pc |-> "none", tracks |-> "none"]

vars == <<gateVars, captureVars, queueVars, decoderVars, recorderVars>>

NoExchange ==
    [pc |-> "none", message |-> <<>>, messageDiv |-> FALSE, aiFullText |-> <<>>,
     sentenceBuffer |-> <<>>, pushed |-> <<>>, reads |-> 0, listLen |-> 0]

\* The state once the script has run with nothing stored and initApp has
\* issued the startup call, with room for n calls of sendMessageToAI.
InitClient(n) ==
    /\ sinceLastRequest = COOLDOWN_MS
    /\ lastUserText = <<>>
    /\ isProcessing = FALSE
    /\ inputEnabled = TRUE
    /\ abortController = NoController
    /\ aborted = {}
    /\ exchanges = [e \in 1..n |-> NoExchange]
    /\ timeoutTimers = {}
    /\ retryButtons = <<>>
    /\ chatMessages = <<>>
    /\ sessionId = NULL
    /\ startup = "pending"
    /\ isMuted \in BOOLEAN
    /\ localStorage = [memodiary_user_id |-> NULL, memo_session_id |-> NULL,
                       memodiary_is_muted |-> isMuted]
    /\ isListening = FALSE
    /\ transcriptBuffer = <<>>
    /\ latestInterim = <<>>
    /\ silenceTimer = NoTimer
    /\ silenceTimers = {}
    /\ recognition = "idle"
    /\ results = 0
    /\ heard = NoSpeech
    /\ audioQueue = <<>>
    /\ isPlayingAudio = FALSE
    /\ currentAudio = NoAudio
    /\ queueLog = NoQueueLog
    /\ mediaRecorder = NoRecorder
    /\ audioChunks = <<>>
    /\ recordings = [k \in RecordingIds |-> NoRecording]
    /\ synth = <<>>
    /\ sinceAccept = COOLDOWN_MS
    /\ lastAccept = [gap |-> COOLDOWN_MS, origin |-> "none", text |-> <<>>,
                     refused |-> "none"]
    /\ lastExit = [path |-> "none", status |-> 0, shown |-> "none", rendered |-> <<>>]

InitMain == InitClient(MaxExchanges)

\* The decoder run on its own is idle.
InitIdleDecoder ==
    /\ dBody = <<>>
    /\ dRest = <<>>
    /\ dState = DecodeInit(NULL, NULL)
    /\ dDone = TRUE

Init == InitMain /\ InitIdleDecoder

\* ---------------------------------------------------------- playback queue
\* The queue state a call of processAudioQueue reads and writes.
QueueState == [audioQueue |-> audioQueue, isPlayingAudio |-> isPlayingAudio,
               currentAudio |-> currentAudio, log |-> queueLog]

\* The busy test `isPlayingAudio ||` is left out.
RECURSIVE ProcessAudioQueue_NoBusyTest(_, _)
ProcessAudioQueue_NoBusyTest(q, muted) ==
    IF q.audioQueue = <<>> THEN q
    ELSE LET textToSpeak == Head(q.audioQueue)
             rest == Tail(q.audioQueue)
             shifted == [q EXCEPT !.audioQueue = rest, !.log.shifted = @ + 1]
         IN IF muted
            THEN IF rest # <<>>
                 THEN ProcessAudioQueue_NoBusyTest(shifted, muted)
                 ELSE shifted
            ELSE [shifted EXCEPT !.isPlayingAudio = TRUE,
                                 !.currentAudio = [text |-> textToSpeak,
                                                   state |-> "loading",
                                                   settled |-> FALSE],
                                 !.log.played = @ + 1]

\* processAudioQueue up to its await: playAudioChunk creates the Audio element,
\* stores it in window.currentAudio and calls play(), whose promise is pending.
RECURSIVE ProcessAudioQueue(_, _)
ProcessAudioQueue(q, muted) ==
    IF q.isPlayingAudio \/ q.audioQueue = <<>> THEN q
    ELSE LET textToSpeak == Head(q.audioQueue)
             rest == Tail(q.audioQueue)
             shifted == [q EXCEPT !.audioQueue = rest, !.log.shifted = @ + 1]
         IN IF muted
            THEN IF rest # <<>>
                 THEN ProcessAudioQueue(shifted, muted)
                 ELSE shifted
            ELSE [shifted EXCEPT !.isPlayingAudio = TRUE,
                                 !.currentAudio = [text |-> textToSpeak,
                                                   state |-> "loading",
                                                   settled |-> FALSE],
                                 !.log.played = @ + 1]

\* audioQueue.push(segment); processAudioQueue(); for each segment in order.
RECURSIVE PushAll(_, _, _)
PushAll(q, segs, muted) ==
    IF segs = <<>> THEN q
    ELSE PushAll(ProcessAudioQueue([q EXCEPT !.audioQueue = Append(@, Head(segs)),
                                             !.log.pushed = @ + 1], muted),
                 Tail(segs), muted)

\* The finally block of processAudioQueue, run when playAudioChunk's promise
\* settles.
AfterPlayback(q, muted) ==
    LET q1 == [q EXCEPT !.isPlayingAudio = FALSE]
    IN IF q1.audioQueue # <<>> THEN ProcessAudioQueue(q1, muted) ELSE q1

SetQueue(q) ==
    /\ audioQueue' = q.audioQueue
    /\ isPlayingAudio' = q.isPlayingAudio
    /\ currentAudio' = q.currentAudio
    /\ queueLog' = q.log

\* ------------------------------------------------------------ request gate
FreeIds == {e \in ExchangeIds : exchanges[e].pc = "none"}

InFlight == {e \in ExchangeIds : exchanges[e].pc \in {"fetch", "read"}}

\* The entry of sendMessageToAI up to `await fetch(...)`.
StartExchange(message, origin) ==
    LET e == SetMin(FreeIds)
    IN /\ isProcessing' = TRUE
       /\ inputEnabled' = FALSE
       /\ abortController' = e
       /\ timeoutTimers' = timeoutTimers \cup {[id |-> e, left |-> TIMEOUT_MS]}
       /\ exchanges' = [exchanges EXCEPT ![e] = [NoExchange EXCEPT !.pc = "fetch",
                                                              !.message = message,
                                                              !.listLen = Len(chatMessages) + 1]]
       /\ lastAccept' = [gap |-> sinceAccept, origin |-> origin, text |-> message,
                        refused |-> "none"]
       /\ sinceAccept' = 0
       /\ UNCHANGED aborted

SendMessageToAI_NoGuard(message, origin) ==
    IF FreeIds = {}
    THEN UNCHANGED <<isProcessing, inputEnabled, abortController, aborted,
                     exchanges, timeoutTimers, sinceAccept, lastAccept>>
    ELSE StartExchange(message, origin)

\* A call made while busy clears the flag instead of leaving it.
SendMessageToAI_ClearsOnReject(message, origin) ==
    IF isProcessing
    THEN /\ isProcessing' = FALSE
         /\ UNCHANGED <<inputEnabled, abortController, aborted,
                        exchanges, timeoutTimers, sinceAccept, lastAccept>>
    ELSE StartExchange(message, origin)

SendMessageToAI(message, origin) ==
    IF isProcessing
    THEN UNCHANGED <<isProcessing, inputEnabled, abortController, aborted,
                     exchanges, timeoutTimers, sinceAccept, lastAccept>>
    ELSE StartExchange(message, origin)

\* A call can be modelled when it is rejected or an activation is left.
CanCall == isProcessing \/ FreeIds # {}

\* An activation that has returned: its locals are gone.
Returned == [NoExchange EXCEPT !.pc = "done"]

Finally_SuccessOnly(exit) ==
    /\ lastExit' = exit
    /\ IF exit.path = "ok"
       THEN /\ isProcessing' = FALSE
            /\ inputEnabled' = TRUE
            /\ abortController' = NoController
       ELSE UNCHANGED <<isProcessing, inputEnabled, abortController>>

\* The finally block of sendMessageToAI; exit names the path that led to it.
Finally(exit) ==
    /\ lastExit' = exit
    /\ isProcessing' = FALSE
    /\ inputEnabled' = TRUE
    /\ abortController' = NoController

ErrorMessage_Generic(error) ==
    IF error = "AbortError" THEN "ERR_TIMEOUT" ELSE error

\* The error code the catch block puts in the error bubble; error is the
\* name of an AbortError and the message of any other error.
ErrorMessage(error) ==
    IF error = "AbortError" THEN "ERR_TIMEOUT"
    ELSE IF error = "RATE_LIMIT" THEN "ERR_429"
    ELSE IF error = "SERVICE_OVERLOAD" THEN "ERR_503"
    ELSE error

\* The catch block: the error bubble with its retry button, then finally.
\* status is the HTTP status the exchange received, 0 when it received none.
Catch(e, error, status) ==
    /\ exchanges' = [exchanges EXCEPT ![e] = Returned]
    /\ retryButtons' = Append(retryButtons, 0)
    /\ UNCHANGED chatMessages
    /\ Finally([path |-> error, status |-> status, shown |-> ErrorMessage(error),
                rendered |-> exchanges[e].aiFullText])

\* The message of the Error thrown for a response that is not ok.
ErrorKind(status) ==
    IF status = 429 THEN "RATE_LIMIT"
    ELSE IF status = 503 THEN "SERVICE_OVERLOAD"
    ELSE "ERR_" \o ToString(status)

\* The guard of handleTextInput that refuses text, "none" when all pass.
RefusingGuard(text) ==
    IF sinceLastRequest < COOLDOWN_MS THEN "cooldown"
    ELSE IF Len(text) < 2 THEN "short"
    ELSE IF isProcessing THEN "busy"
    ELSE "none"

\* A refused submission restarts the cooldown window.
HandleTextInput_RestartsCooldown(raw) ==
    /\ inputEnabled
    /\ CanCall
    /\ LET text == Trim(raw)
       IN IF RefusingGuard(text) # "none"
          THEN /\ lastAccept' = [lastAccept EXCEPT !.refused = RefusingGuard(text)]
               /\ sinceLastRequest' = 0
               /\ UNCHANGED <<lastUserText, isProcessing, inputEnabled,
                              abortController, aborted, exchanges, timeoutTimers,
                              retryButtons, chatMessages, sessionId, startup,
                              localStorage, sinceAccept, lastExit>>
          ELSE /\ sinceLastRequest' = 0
               /\ lastUserText' = text
               /\ chatMessages' = Append(chatMessages, [role |-> "user", text |-> text])
               /\ SendMessageToAI(text, "typed")
               /\ UNCHANGED <<retryButtons, sessionId, startup, localStorage, lastExit>>
    /\ UNCHANGED <<captureVars, queueVars, decoderVars, recorderVars>>

HandleTextInput(raw) ==
    /\ inputEnabled
    /\ CanCall
    /\ LET text == Trim(raw)
       IN IF RefusingGuard(text) # "none"
          THEN /\ lastAccept' = [lastAccept EXCEPT !.refused = RefusingGuard(text)]
               /\ UNCHANGED <<sinceLastRequest, lastUserText, isProcessing,
                              inputEnabled, abortController, aborted, exchanges,
                              timeoutTimers, retryButtons, chatMessages, sessionId,
                              startup, localStorage, sinceAccept, lastExit>>
          ELSE /\ sinceLastRequest' = 0
               /\ lastUserText' = text
               /\ chatMessages' = Append(chatMessages, [role |-> "user", text |-> text])
               /\ SendMessageToAI(text, "typed")
               /\ UNCHANGED <<retryButtons, sessionId, startup, localStorage, lastExit>>
    /\ UNCHANGED <<captureVars, queueVars, decoderVars, recorderVars>>

\* A click on the i-th retry button runs window.retryLastMessage:
\* getElementById('retry-btn-active') finds the first element with that id in
\* the document, which is removed, whichever button was clicked.
RetryLastMessage(i) ==
    /\ i \in 1..Len(retryButtons)
    /\ CanCall
    /\ retryButtons' =
           LET issued == IF lastUserText # <<>> /\ ~isProcessing THEN 1 ELSE 0
               marked == [retryButtons EXCEPT ![i] = @ + issued]
           IN Tail(marked)
    /\ IF lastUserText # <<>>
       THEN /\ chatMessages' = Append(chatMessages,
                                      [role |-> "user", text |-> lastUserText])
            /\ SendMessageToAI(lastUserText, "retry")
       ELSE UNCHANGED <<chatMessages, isProcessing, inputEnabled, abortController,
                        aborted, exchanges, timeoutTimers, sinceAccept, lastAccept>>
    /\ UNCHANGED <<lastExit, sinceLastRequest, lastUserText, sessionId, startup, localStorage,
                   captureVars, queueVars, decoderVars, recorderVars>>

\* fetch resolves with a response: the timeout is cleared; a non-2xx status
\* throws into the catch block.
FetchResponse(e, status) ==
    /\ exchanges[e].pc = "fetch"
    /\ e \notin aborted
    /\ timeoutTimers' = {t \in timeoutTimers : t.id # e}
    /\ IF status = 200
       THEN /\ exchanges' = [exchanges EXCEPT ![e].pc = "read"]
            /\ UNCHANGED <<isProcessing, inputEnabled, abortController, retryButtons,
                           lastExit, chatMessages>>
       ELSE Catch(e, ErrorKind(status), status)
    /\ UNCHANGED <<sinceLastRequest, lastUserText, aborted,
                   sessionId, startup, localStorage, sinceAccept, lastAccept, captureVars, queueVars,
                   decoderVars, recorderVars>>

\* fetch rejects: a network failure, or AbortError once the signal is aborted.
\* clearTimeout is not reached.
FetchRejected(e) ==
    /\ exchanges[e].pc = "fetch"
    /\ Catch(e, IF e \in aborted THEN "AbortError" ELSE "Failed to fetch", 0)
    /\ UNCHANGED <<sinceLastRequest, lastUserText, aborted, timeoutTimers,
                   sessionId, startup, localStorage, sinceAccept, lastAccept, captureVars,
                   queueVars, decoderVars, recorderVars>>

\* reader.read() resolves with a value, at most `limit` times per exchange.
\* The exchange's `pushed` records the segments it has pushed to audioQueue.
ReadChunkUpTo(e, chunk, limit) ==
    /\ exchanges[e].pc = "read"
    /\ e \notin aborted
    /\ exchanges[e].reads < limit
    /\ LET x  == exchanges[e]
           d0 == [DecodeInit(sessionId, localStorage.memo_session_id) EXCEPT
                     !.messageDiv = x.messageDiv, !.aiFullText = x.aiFullText,
                     !.sentenceBuffer = x.sentenceBuffer]
           d  == ProcessChunk(d0, chunk, isMuted)
       IN /\ exchanges' = [exchanges EXCEPT ![e].messageDiv = d.messageDiv,
                                            ![e].aiFullText = d.aiFullText,
                                            ![e].sentenceBuffer = d.sentenceBuffer,
                                            ![e].pushed = @ \o d.pushed,
                                            ![e].reads = @ + 1]
          /\ sessionId' = d.sessionId
          /\ localStorage' = [localStorage EXCEPT !.memo_session_id = d.memo]
          /\ SetQueue(PushAll(QueueState, d.pushed, isMuted))
    /\ UNCHANGED <<lastExit, sinceLastRequest, lastUserText, isProcessing, inputEnabled,
                   abortController, aborted, timeoutTimers, retryButtons, startup,
                   chatMessages, sinceAccept, lastAccept, isMuted, synth, captureVars, decoderVars, recorderVars>>

ReadChunk(e, chunk) == ReadChunkUpTo(e, chunk, MaxReads)

\* The full text overwrites the newest stored message instead of being pushed.
SaveAiMessage_Rewrites(msgs, aiFullText) ==
    IF aiFullText # <<>> /\ msgs # <<>>
    THEN [msgs EXCEPT ![Len(msgs)] = [role |-> "ai", text |-> aiFullText]]
    ELSE msgs

\* if (aiFullText) chatMessages.push({ role: 'ai', text: aiFullText })
SaveAiMessage(msgs, aiFullText) ==
    IF aiFullText # <<>>
    THEN Append(msgs, [role |-> "ai", text |-> aiFullText])
    ELSE msgs

\* reader.read() resolves with done: final flush, the assistant message is
\* stored, then finally.
ReadDone(e) ==
    /\ exchanges[e].pc = "read"
    /\ e \notin aborted
    /\ LET x == exchanges[e]
           d == FinalFlush([DecodeInit(NULL, NULL) EXCEPT
                               !.sentenceBuffer = x.sentenceBuffer], isMuted)
       IN /\ SetQueue(PushAll(QueueState, d.pushed, isMuted))
          /\ chatMessages' = SaveAiMessage(chatMessages, x.aiFullText)
          /\ exchanges' = [exchanges EXCEPT ![e] = Returned]
    /\ Finally([path |-> "ok", status |-> 200, shown |-> "none",
                rendered |-> exchanges[e].aiFullText])
    /\ UNCHANGED <<sinceLastRequest, lastUserText, aborted, timeoutTimers,
                   retryButtons, sessionId, startup, localStorage, sinceAccept, lastAccept, isMuted, synth,
                   captureVars, decoderVars, recorderVars>>

\* An exception while the stream is being read and decoded: reader.read()
\* rejects because the connection broke, or because the signal was aborted.
ReadRejected(e) ==
    /\ exchanges[e].pc = "read"
    /\ Catch(e, IF e \in aborted THEN "AbortError" ELSE "network error", 200)
    /\ UNCHANGED <<sinceLastRequest, lastUserText, aborted, timeoutTimers,
                   sessionId, startup, localStorage, sinceAccept, lastAccept, captureVars,
                   queueVars, decoderVars, recorderVars>>

\* A timeout timer fires: () => abortController.abort() on the global of that
\* moment; with abortController null the callback throws and changes nothing.
TimeoutFires(t) ==
    /\ t \in timeoutTimers
    /\ t.left = 0
    /\ timeoutTimers' = timeoutTimers \ {t}
    /\ aborted' = IF abortController = NoController THEN aborted
                  ELSE aborted \cup {abortController}
    /\ UNCHANGED <<lastExit, sinceLastRequest, lastUserText, isProcessing, inputEnabled,
                   abortController, exchanges, retryButtons, chatMessages,
                   sessionId, startup, localStorage, sinceAccept, lastAccept, captureVars, queueVars,
                   decoderVars, recorderVars>>

\* Time passes.  The program reads the clock only through the cooldown test
\* (Date.now() - lastRequestTime < COOLDOWN_MS) and through timers becoming due,
\* so time is kept relative: the age of the last request and the time left on
\* each timer.  The clock advances only while a cooldown or a timer is still
\* open, by the duration of that kind of deadline; time passing with nothing
\* open cannot be observed.
CooldownOpen == sinceLastRequest < COOLDOWN_MS \/ sinceAccept < COOLDOWN_MS

SilenceOpen == \E t \in silenceTimers : t.left > 0

TimeoutOpen == \E t \in timeoutTimers : t.left > 0

StepAllowed(d) ==
    \/ d = SILENCE_TIMEOUT /\ (CooldownOpen \/ SilenceOpen)
    \/ d = COOLDOWN_MS /\ CooldownOpen
    \/ d = TIMEOUT_MS /\ TimeoutOpen

Min(a, b) == IF a <= b THEN a ELSE b

Max(a, b) == IF a >= b THEN a ELSE b

Advance(d) ==
    /\ StepAllowed(d)
    /\ sinceLastRequest' = Min(sinceLastRequest + d, COOLDOWN_MS)
    /\ sinceAccept' = Min(sinceAccept + d, COOLDOWN_MS)
    /\ timeoutTimers' = {[t EXCEPT !.left = Max(@ - d, 0)] : t \in timeoutTimers}
    /\ silenceTimers' = {[t EXCEPT !.left = Max(@ - d, 0)] : t \in silenceTimers}
    /\ UNCHANGED <<lastExit, lastUserText, isProcessing, inputEnabled, abortController,
                   aborted, exchanges, retryButtons, chatMessages, sessionId, startup,
                   localStorage, lastAccept, isListening, transcriptBuffer,
                   latestInterim, silenceTimer, recognition, results, heard, queueVars,
                   decoderVars, recorderVars>>

\* ----------------------------------------------------------- speech capture
\* recognition.stop(): a started engine winds down and will fire onend.
StopEngine(rec) == IF rec \in {"starting", "running"} THEN "stopping" ELSE rec

\* if (silenceTimer) clearTimeout(silenceTimer): the timer the handle names is
\* cancelled if it is still pending; the handle keeps its value.
ClearSilenceTimer == {t \in silenceTimers : t.id # silenceTimer}

\* onresult arming a timer without cancelling the one before it.
RearmSilenceTimer_NoClear(captured, id) ==
    IF captured
    THEN silenceTimers \cup {[id |-> id, left |-> SILENCE_TIMEOUT, live |-> isListening]}
    ELSE silenceTimers

\* The pending silence timers after onresult: the timer of the handle is
\* cancelled first, and a new one is armed when something has been captured.
RearmSilenceTimer(captured, id) ==
    IF captured
    THEN ClearSilenceTimer \cup {[id |-> id, left |-> SILENCE_TIMEOUT, live |-> isListening]}
    ELSE ClearSilenceTimer

SubmitVoiceInput_FinalsOnly(rec) ==
    LET text == Trim(CollapseWs(transcriptBuffer))
    IN /\ transcriptBuffer' = <<>>
       /\ latestInterim' = <<>>
       /\ recognition' = StopEngine(rec)
       /\ isListening' = FALSE
       /\ heard' = [NoSpeech EXCEPT !.stops = heard.stops + 1,
                                 !.sent = heard.sent + IF Len(text) > 0 THEN 1 ELSE 0]
       /\ IF Len(text) > 0
          THEN /\ chatMessages' = Append(chatMessages, [role |-> "user", text |-> text])
               /\ SendMessageToAI(text, "voice")
          ELSE UNCHANGED <<chatMessages, isProcessing, inputEnabled, abortController,
                           aborted, exchanges, timeoutTimers, sinceAccept, lastAccept>>

SubmitVoiceInput_AlwaysSends(rec) ==
    LET text == Trim(CollapseWs(transcriptBuffer \o <<" ">> \o latestInterim))
    IN /\ transcriptBuffer' = <<>>
       /\ latestInterim' = <<>>
       /\ recognition' = StopEngine(rec)
       /\ isListening' = FALSE
       /\ heard' = [NoSpeech EXCEPT !.stops = heard.stops + 1,
                                 !.sent = heard.sent + IF Len(text) > 0 THEN 1 ELSE 0]
       /\ chatMessages' = Append(chatMessages, [role |-> "user", text |-> text])
       /\ SendMessageToAI(text, "voice")

SubmitVoiceInput_KeepsBuffers(rec) ==
    LET text == Trim(CollapseWs(transcriptBuffer \o <<" ">> \o latestInterim))
    IN /\ UNCHANGED <<transcriptBuffer, latestInterim>>
       /\ recognition' = StopEngine(rec)
       /\ isListening' = FALSE
       /\ heard' = [NoSpeech EXCEPT !.stops = heard.stops + 1,
                                 !.sent = heard.sent + IF Len(text) > 0 THEN 1 ELSE 0]
       /\ IF Len(text) > 0
          THEN /\ chatMessages' = Append(chatMessages, [role |-> "user", text |-> text])
               /\ SendMessageToAI(text, "voice")
          ELSE UNCHANGED <<chatMessages, isProcessing, inputEnabled, abortController,
                           aborted, exchanges, timeoutTimers, sinceAccept, lastAccept>>

\* submitVoiceInput; rec is the engine state recognition.stop() acts on.
SubmitVoiceInput(rec) ==
    LET text == Trim(CollapseWs(transcriptBuffer \o <<" ">> \o latestInterim))
    IN /\ transcriptBuffer' = <<>>
       /\ latestInterim' = <<>>
       /\ recognition' = StopEngine(rec)
       /\ isListening' = FALSE
       /\ heard' = [NoSpeech EXCEPT !.stops = heard.stops + 1,
                                 !.sent = heard.sent + IF Len(text) > 0 THEN 1 ELSE 0]
       /\ IF Len(text) > 0
          THEN /\ chatMessages' = Append(chatMessages, [role |-> "user", text |-> text])
               /\ SendMessageToAI(text, "voice")
          ELSE UNCHANGED <<chatMessages, isProcessing, inputEnabled, abortController,
                           aborted, exchanges, timeoutTimers, sinceAccept, lastAccept>>

\* The click handler of micButton.
MicClick ==
    /\ isListening => CanCall
    /\ IF isListening
       THEN SubmitVoiceInput(recognition)
       ELSE /\ transcriptBuffer' = <<>>
            /\ recognition' = IF recognition = "idle" THEN "starting" ELSE recognition
            /\ UNCHANGED <<latestInterim, isListening, heard, chatMessages,
                           isProcessing, inputEnabled, abortController, aborted,
                           exchanges, timeoutTimers, sinceAccept, lastAccept>>
    /\ UNCHANGED <<lastExit, sinceLastRequest, lastUserText, retryButtons, sessionId, startup,
                   localStorage, silenceTimer, silenceTimers, results, queueVars,
                   decoderVars, recorderVars>>

\* recognition.onstart
RecognitionStart ==
    /\ recognition = "starting"
    /\ recognition' = "running"
    /\ isListening' = TRUE
    /\ transcriptBuffer' = <<>>
    /\ latestInterim' = <<>>
    /\ heard' = NoSpeech
    /\ UNCHANGED <<gateVars, silenceTimer, silenceTimers, results, queueVars,
                   decoderVars, recorderVars>>

RECURSIVE AppendFinals(_, _)
AppendFinals(buf, finals) ==
    IF finals = <<>> THEN buf
    ELSE AppendFinals(buf \o Head(finals) \o <<" ">>, Tail(finals))

\* recognition.onresult, for at most limit result events in a behaviour.
RecognitionResultUpTo(r, limit) ==
    /\ recognition \in {"running", "stopping"}
    /\ results < limit
    /\ results' = results + 1
    /\ heard' = IF isListening
                THEN [finals |-> heard.finals \o r.finals, interim |-> r.interim,
                      stops |-> 0, sent |-> heard.sent]
                ELSE [heard EXCEPT !.stops = 0]
    /\ LET buf == AppendFinals(transcriptBuffer, r.finals)
           captured == Trim(buf) # <<>> \/ Trim(r.interim) # <<>>
       IN /\ transcriptBuffer' = buf
          /\ latestInterim' = r.interim
          /\ silenceTimers' = RearmSilenceTimer(captured, results + 1)
          /\ silenceTimer' = IF captured THEN results + 1 ELSE silenceTimer
    /\ UNCHANGED <<gateVars, isListening, recognition, queueVars, decoderVars, recorderVars>>

RecognitionResult(r) == RecognitionResultUpTo(r, MaxResults)

\* The silence timer fires: submitVoiceInput.
SilenceFires ==
    /\ CanCall
    /\ \E t \in silenceTimers : /\ t.left = 0
                                /\ silenceTimers' = silenceTimers \ {t}
    /\ SubmitVoiceInput(recognition)
    /\ UNCHANGED <<lastExit, sinceLastRequest, lastUserText, retryButtons, sessionId, startup,
                   localStorage, silenceTimer, results, queueVars, decoderVars, recorderVars>>

\* recognition.onend (the handler assigned last)
RecognitionEnd ==
    /\ recognition \in {"running", "stopping"}
    /\ (isListening /\ Trim(transcriptBuffer) # <<>>) => CanCall
    /\ silenceTimers' = ClearSilenceTimer
    /\ IF isListening /\ Trim(transcriptBuffer) # <<>>
       THEN SubmitVoiceInput("idle")
       ELSE /\ isListening' = FALSE
            /\ recognition' = "idle"
            /\ heard' = [heard EXCEPT !.finals = <<>>, !.interim = <<>>]
            /\ UNCHANGED <<transcriptBuffer, latestInterim, chatMessages,
                           isProcessing, inputEnabled, abortController, aborted,
                           exchanges, timeoutTimers, sinceAccept, lastAccept>>
    /\ UNCHANGED <<lastExit, sinceLastRequest, lastUserText, retryButtons, sessionId, startup,
                   localStorage, silenceTimer, results, queueVars, decoderVars, recorderVars>>

\* onerror leaving the listening flag as it was.
RecognitionError_StaysListening(kind) ==
    /\ recognition \in {"starting", "running"}
    /\ recognition' = "stopping"
    /\ heard' = [heard EXCEPT !.finals = <<>>, !.interim = <<>>]
    /\ UNCHANGED <<gateVars, isListening, transcriptBuffer, latestInterim, silenceTimer,
                   silenceTimers, results, queueVars, decoderVars, recorderVars>>

\* recognition.onerror; the engine then ends.
RecognitionError(kind) ==
    /\ recognition \in {"starting", "running"}
    /\ isListening' = FALSE
    /\ recognition' = "stopping"
    /\ heard' = [heard EXCEPT !.finals = <<>>, !.interim = <<>>]
    /\ UNCHANGED <<gateVars, transcriptBuffer, latestInterim, silenceTimer,
                   silenceTimers, results, queueVars, decoderVars, recorderVars>>

\* ------------------------------------------------------- playback events
\* resolve() of playAudioChunk's promise: the awaiting processAudioQueue resumes
\* in its finally block; a second resolve of a settled promise does nothing.
Resolve(q) ==
    IF q.currentAudio.settled THEN q
    ELSE AfterPlayback([q EXCEPT !.currentAudio.settled = TRUE,
                                 !.log.settled = @ + 1], isMuted)

\* audio.play() is fulfilled: playback has begun.
AudioStarted ==
    /\ currentAudio # NoAudio
    /\ currentAudio.state = "loading"
    /\ currentAudio' = [currentAudio EXCEPT !.state = "playing"]
    /\ UNCHANGED <<gateVars, captureVars, isMuted, audioQueue, isPlayingAudio,
                   synth, queueLog, decoderVars, recorderVars>>

\* audio.play() is rejected (autoplay blocked): catch -> resolve().
AudioPlayRejected ==
    /\ currentAudio # NoAudio
    /\ currentAudio.state = "loading"
    /\ SetQueue(Resolve([QueueState EXCEPT !.currentAudio.state = "blocked"]))
    /\ UNCHANGED <<gateVars, captureVars, isMuted, synth, decoderVars, recorderVars>>

\* pause() on an element whose play() promise is pending rejects that promise
\* in a later task: catch -> resolve().
AudioPlayAborted ==
    /\ currentAudio # NoAudio
    /\ currentAudio.state = "aborting"
    /\ SetQueue(Resolve([QueueState EXCEPT !.currentAudio.state = "paused"]))
    /\ UNCHANGED <<gateVars, captureVars, isMuted, synth, decoderVars, recorderVars>>

\* audio.onended
AudioEnded ==
    /\ currentAudio # NoAudio
    /\ currentAudio.state = "playing"
    /\ SetQueue(Resolve([QueueState EXCEPT !.currentAudio.state = "ended"]))
    /\ UNCHANGED <<gateVars, captureVars, isMuted, synth, decoderVars, recorderVars>>

\* fallbackToBrowserTTS: speechSynthesis.speak queues the utterance.
FallbackToBrowserTTS(text) == synth' = Append(synth, text)

\* audio.onerror: the media failed to load or to decode.
AudioError ==
    /\ currentAudio # NoAudio
    /\ currentAudio.state \in {"loading", "playing", "paused", "aborting"}
    /\ FallbackToBrowserTTS(currentAudio.text)
    /\ SetQueue(Resolve([QueueState EXCEPT !.currentAudio.state = "error"]))
    /\ UNCHANGED <<gateVars, captureVars, isMuted, decoderVars, recorderVars>>

\* The utterance being spoken by speechSynthesis ends.
SynthEnd ==
    /\ synth # <<>>
    /\ synth' = Tail(synth)
    /\ UNCHANGED <<gateVars, captureVars, isMuted, audioQueue, isPlayingAudio,
                   currentAudio, queueLog, decoderVars, recorderVars>>

\* currentAudio.pause()
Pause(a) ==
    IF a.state = "loading" THEN [a EXCEPT !.state = "aborting"]
    ELSE IF a.state = "playing" THEN [a EXCEPT !.state = "paused"]
    ELSE a

\* The click handler of muteButton.
ToggleMute ==
    /\ isMuted' = ~isMuted
    /\ localStorage' = [localStorage EXCEPT !.memodiary_is_muted = ~isMuted]
    /\ IF ~isMuted
       THEN /\ synth' = <<>>
            /\ currentAudio' = Pause(currentAudio)
       ELSE UNCHANGED <<synth, currentAudio>>
    /\ UNCHANGED <<lastExit, sinceLastRequest, lastUserText, isProcessing, inputEnabled,
                   abortController, aborted, exchanges, timeoutTimers, retryButtons,
                   chatMessages, sessionId, startup, sinceAccept, lastAccept, captureVars, audioQueue,
                   isPlayingAudio, queueLog, decoderVars, recorderVars>>

\* ------------------------------------------------------- startup, restart
\* The session ids the /api/startup response may carry.
StartupIds == {<<"u", "1">>}

\* initApp with no stored history: the startup response is ok; the session id
\* is taken from it and the welcome message is shown and stored.
StartupResponse(sid) ==
    /\ startup = "pending"
    /\ startup' = "done"
    /\ sessionId' = sid
    /\ localStorage' = [localStorage EXCEPT !.memodiary_user_id = sid]
    /\ chatMessages' = Append(chatMessages, [role |-> "ai", text |-> <<"w">>])
    /\ UNCHANGED <<sinceLastRequest, lastUserText, isProcessing, inputEnabled,
                   abortController, aborted, exchanges, timeoutTimers, retryButtons,
                   sinceAccept, lastAccept, lastExit, captureVars, queueVars,
                   decoderVars, recorderVars>>

\* initApp: the startup call fails or its response is not ok.
StartupFailed ==
    /\ startup = "pending"
    /\ startup' = "failed"
    /\ UNCHANGED <<sinceLastRequest, lastUserText, isProcessing, inputEnabled,
                   abortController, aborted, exchanges, timeoutTimers, retryButtons,
                   chatMessages, sessionId, localStorage, sinceAccept, lastAccept,
                   lastExit, captureVars, queueVars, decoderVars, recorderVars>>

\* initApp up to its return or its first await: a restored history is shown
\* again and the startup call is skipped; with no history the call is issued.
InitAppOutcome_AlwaysStartup(messages) == "pending"

InitAppOutcome(messages) == IF Len(messages) > 0 THEN "restored" ELSE "pending"

\* The DOMContentLoaded handler: initApp runs once per page load.
InitApp ==
    /\ startup = "loading"
    /\ startup' = InitAppOutcome(chatMessages)
    /\ UNCHANGED <<sinceLastRequest, lastUserText, isProcessing, inputEnabled,
                   abortController, aborted, exchanges, timeoutTimers, retryButtons,
                   chatMessages, sessionId, localStorage, sinceAccept, lastAccept,
                   lastExit, captureVars, queueVars, decoderVars, recorderVars>>

\* The client is closed and started again: the script runs from the top with
\* what localStorage holds; sessionStorage, and with it the chat history, is
\* gone.  initApp has not run yet.
Restart ==
    /\ sinceLastRequest' = COOLDOWN_MS
    /\ lastUserText' = <<>>
    /\ isProcessing' = FALSE
    /\ inputEnabled' = TRUE
    /\ abortController' = NoController
    /\ aborted' = {}
    /\ exchanges' = [e \in ExchangeIds |-> NoExchange]
    /\ timeoutTimers' = {}
    /\ retryButtons' = <<>>
    /\ chatMessages' = <<>>
    /\ sessionId' = localStorage.memodiary_user_id
    /\ startup' = "loading"
    /\ isMuted' = localStorage.memodiary_is_muted
    /\ isListening' = FALSE
    /\ transcriptBuffer' = <<>>
    /\ latestInterim' = <<>>
    /\ silenceTimer' = NoTimer
    /\ silenceTimers' = {}
    /\ recognition' = "idle"
    /\ results' = 0
    /\ heard' = NoSpeech
    /\ audioQueue' = <<>>
    /\ isPlayingAudio' = FALSE
    /\ currentAudio' = NoAudio
    /\ queueLog' = NoQueueLog
    /\ synth' = <<>>
    /\ sinceAccept' = COOLDOWN_MS
    /\ lastAccept' = [gap |-> COOLDOWN_MS, origin |-> "none", text |-> <<>>,
                     refused |-> "none"]
    /\ lastExit' = [path |-> "none", status |-> 0, shown |-> "none", rendered |-> <<>>]
    /\ UNCHANGED <<localStorage, decoderVars, recorderVars>>

\* The page is loaded again in the same tab: the script runs from the top with
\* what localStorage and sessionStorage hold, so the chat history saved after
\* every push is read back.  initApp has not run yet.
Reload ==
    /\ Len(chatMessages) <= MaxStoredMessages
    /\ sinceLastRequest' = COOLDOWN_MS
    /\ lastUserText' = <<>>
    /\ isProcessing' = FALSE
    /\ inputEnabled' = TRUE
    /\ abortController' = NoController
    /\ aborted' = {}
    /\ exchanges' = [e \in ExchangeIds |-> NoExchange]
    /\ timeoutTimers' = {}
    /\ retryButtons' = <<>>
    /\ chatMessages' = chatMessages
    /\ sessionId' = localStorage.memodiary_user_id
    /\ startup' = "loading"
    /\ isMuted' = localStorage.memodiary_is_muted
    /\ isListening' = FALSE
    /\ transcriptBuffer' = <<>>
    /\ latestInterim' = <<>>
    /\ silenceTimer' = NoTimer
    /\ silenceTimers' = {}
    /\ recognition' = "idle"
    /\ results' = 0
    /\ heard' = NoSpeech
    /\ audioQueue' = <<>>
    /\ isPlayingAudio' = FALSE
    /\ currentAudio' = NoAudio
    /\ queueLog' = NoQueueLog
    /\ synth' = <<>>
    /\ sinceAccept' = COOLDOWN_MS
    /\ lastAccept' = [gap |-> COOLDOWN_MS, origin |-> "none", text |-> <<>>,
                     refused |-> "none"]
    /\ lastExit' = [path |-> "none", status |-> 0, shown |-> "none", rendered |-> <<>>]
    /\ UNCHANGED <<localStorage, decoderVars, recorderVars>>

\* ------------------------------------------------ the decoder on its own
\* Response bodies whose reads are cut at arbitrary positions.
Bodies ==
    {S_DATA \o <<"H", "i", NL, NL>>,
     S_DATA \o <<"H", "i", NL, NL>> \o S_DATA \o <<" ", "t", NL, NL>>,
     S_EVENT \o S_SESSION_ID \o <<NL>> \o S_DATA \o <<"s", "1", NL, NL>>
         \o S_DATA \o <<"c", "?", NL, NL>>,
     S_EVENT \o S_SESSION_ID \o <<NL>> \o S_EVENT \o S_MESSAGE \o <<NL>>
         \o S_DATA \o <<"a", NL>> \o S_DATA \o <<"b", NL, NL>>}

InitDecoder ==
    /\ InitMain
    /\ isMuted = FALSE
    /\ dBody \in Bodies
    /\ dRest = dBody
    /\ dState = DecodeInit(NULL, NULL)
    /\ dDone = FALSE

\* One reader.read() delivering the next k bytes of the body.
DecoderRead(k) ==
    /\ ~dDone
    /\ k \in 1..Len(dRest)
    /\ dState' = ProcessChunk(dState, SubSeq(dRest, 1, k), isMuted)
    /\ dRest' = SubSeq(dRest, k + 1, Len(dRest))
    /\ UNCHANGED <<gateVars, captureVars, queueVars, recorderVars, dBody, dDone>>

\* reader.read() reports done.
DecoderEnd ==
    /\ ~dDone
    /\ dRest = <<>>
    /\ dState' = FinalFlush(dState, isMuted)
    /\ dDone' = TRUE
    /\ UNCHANGED <<gateVars, captureVars, queueVars, recorderVars, dBody, dRest>>

NextDecoder ==
    \/ \E k \in 1..Len(dRest) : DecoderRead(k)
    \/ DecoderEnd

SpecDecoder == InitDecoder /\ [][NextDecoder]_vars

\* ------------------------------------------- capture by backend transcription
\* The variant of the script that records with a MediaRecorder and has the
\* backend transcribe the recording.
FreeRecordings == {k \in RecordingIds : recordings[k].pc = "none"}

\* mediaRecorder.state === 'recording'
Recording == {k \in RecordingIds : recordings[k].pc = "recording"}

\* The sizes of the chunk a recorder delivers when it stops.
DataSizes == {0, 400, 1200}

\* data.text of the /api/transcribe response.
TranscribedTexts == {<<>>, <<"o", "k">>}

RECURSIVE BlobSize(_)
BlobSize(chunks) ==
    IF chunks = <<>> THEN 0 ELSE Head(chunks) + BlobSize(Tail(chunks))

\* resetMicUI
ResetMicUI == isListening' = FALSE

UnchangedByRecorder ==
    UNCHANGED <<transcriptBuffer, latestInterim, silenceTimer, silenceTimers,
                recognition, results, heard, queueVars, decoderVars,
                sinceLastRequest, lastUserText, retryButtons, sessionId, startup,
                localStorage, lastExit>>

UnchangedGate ==
    UNCHANGED <<chatMessages, isProcessing, inputEnabled, abortController,
                aborted, exchanges, timeoutTimers, sinceAccept, lastAccept>>

\* A click on micButton while isListening is false: startRecording up to
\* `await getUserMedia(...)`.
StartRecording ==
    /\ ~isListening
    /\ FreeRecordings # {}
    /\ recordings' = [recordings EXCEPT ![SetMin(FreeRecordings)].pc = "granting"]
    /\ UNCHANGED <<isListening, mediaRecorder, audioChunks>>
    /\ UnchangedGate
    /\ UnchangedByRecorder

\* getUserMedia resolves: the recorder is created on the stream and started.
GetUserMediaResolved(k) ==
    /\ recordings[k].pc = "granting"
    /\ mediaRecorder' = k
    /\ audioChunks' = <<>>
    /\ recordings' = [recordings EXCEPT ![k] = [pc |-> "recording", tracks |-> "live"]]
    /\ isListening' = TRUE
    /\ UnchangedGate
    /\ UnchangedByRecorder

\* getUserMedia rejects: the catch block of startRecording.
GetUserMediaRejected(k) ==
    /\ recordings[k].pc = "granting"
    /\ recordings' = [recordings EXCEPT ![k].pc = "denied"]
    /\ UNCHANGED <<isListening, mediaRecorder, audioChunks>>
    /\ UnchangedGate
    /\ UnchangedByRecorder

\* A click on micButton while isListening is true: stopRecording.
StopRecording ==
    /\ isListening
    /\ recordings' =
           IF mediaRecorder # NoRecorder /\ mediaRecorder \in Recording
           THEN [recordings EXCEPT ![mediaRecorder].pc = "stopping"]
           ELSE recordings
    /\ isListening' = FALSE
    /\ UNCHANGED <<mediaRecorder, audioChunks>>
    /\ UnchangedGate
    /\ UnchangedByRecorder

\* A stopped recorder delivers its data (ondataavailable) and its stop event:
\* mediaRecorder.onstop up to `await fetch('/api/transcribe', ...)`.
MediaRecorderOnStop(k, size) ==
    /\ recordings[k].pc = "stopping"
    /\ audioChunks' = IF size > 0 THEN Append(audioChunks, size) ELSE audioChunks
    /\ IF BlobSize(audioChunks') < 1000
       THEN /\ ResetMicUI
            /\ recordings' = [recordings EXCEPT ![k].pc = "done"]
       ELSE /\ recordings' = [recordings EXCEPT ![k].pc = "transcribing"]
            /\ UNCHANGED isListening
    /\ UNCHANGED mediaRecorder
    /\ UnchangedGate
    /\ UnchangedByRecorder

\* The response of /api/transcribe: ok with a text, then finally.
TranscribeResponse(k, text) ==
    /\ recordings[k].pc = "transcribing"
    /\ Len(text) > 0 => CanCall
    /\ IF Len(text) > 0
       THEN /\ chatMessages' = Append(chatMessages, [role |-> "user", text |-> text])
            /\ SendMessageToAI(text, "voice")
       ELSE UnchangedGate
    /\ ResetMicUI
    /\ recordings' = [recordings EXCEPT ![k] = [pc |-> "done", tracks |-> "stopped"]]
    /\ UNCHANGED <<mediaRecorder, audioChunks>>
    /\ UnchangedByRecorder

\* The transcription request fails or its response is not ok: catch, then
\* finally.
TranscribeFailed(k) ==
    /\ recordings[k].pc = "transcribing"
    /\ ResetMicUI
    /\ recordings' = [recordings EXCEPT ![k] = [pc |-> "done", tracks |-> "stopped"]]
    /\ UNCHANGED <<mediaRecorder, audioChunks>>
    /\ UnchangedGate
    /\ UnchangedByRecorder

\* ------------------------------------------------------------ the client
\* The request gate with speech capture and the clock.  The client starts
\* muted and stays muted, so the playback queue stays empty: no action of the
\* gate or of the capture engine reads the queue.
InitGate == Init /\ isMuted = TRUE

Next ==
    \/ \E raw \in TypedInputs : HandleTextInput(raw)
    \/ \E i \in 1..Len(retryButtons) : RetryLastMessage(i)
    \/ \E e \in ExchangeIds, status \in Statuses : FetchResponse(e, status)
    \/ \E e \in ExchangeIds : FetchRejected(e)
    \/ \E e \in ExchangeIds, chunk \in GateChunks : ReadChunk(e, chunk)
    \/ \E e \in ExchangeIds : ReadDone(e)
    \/ \E e \in ExchangeIds : ReadRejected(e)
    \/ \E t \in timeoutTimers : TimeoutFires(t)
    \/ \E d \in TimeSteps : Advance(d)
    \/ MicClick
    \/ RecognitionStart
    \/ \E r \in ResultEvents : RecognitionResult(r)
    \/ SilenceFires
    \/ RecognitionEnd
    \/ \E kind \in {"no-speech", "not-allowed"} : RecognitionError(kind)

Spec == InitGate /\ [][Next]_vars

\* The session id over page loads: the startup call, typed exchanges whose
\* stream may carry a session-id event, and restarts of the client.
NextSession ==
    \/ \E sid \in StartupIds : StartupResponse(sid)
    \/ StartupFailed
    \/ \E raw \in TypedInputs : HandleTextInput(raw)
    \/ \E e \in ExchangeIds : FetchResponse(e, 200)
    \/ \E e \in ExchangeIds, chunk \in Chunks : ReadChunk(e, chunk)
    \/ \E e \in ExchangeIds : ReadDone(e)
    \/ Advance(COOLDOWN_MS)
    \/ Restart
    \/ Reload
    \/ InitApp

SpecSession == InitGate /\ [][NextSession]_vars

\* Speech segments over several reads of one reply, with mute toggles between
\* the reads.  Nothing is played: the segments stay with the player and in the
\* queue.
NextSegments ==
    \/ \E raw \in TypedInputs : HandleTextInput(raw)
    \/ \E e \in ExchangeIds : FetchResponse(e, 200)
    \/ \E e \in ExchangeIds, chunk \in SegmentChunks :
           ReadChunkUpTo(e, chunk, MaxSegmentReads)
    \/ \E e \in ExchangeIds : ReadDone(e)
    \/ \E e \in ExchangeIds : ReadRejected(e)
    \/ ToggleMute

InitSegments == InitClient(1) /\ InitIdleDecoder

SpecSegments == InitSegments /\ [][NextSegments]_vars

\* The retry buttons on their own: every exchange is answered 429, and there
\* is room for more exchanges.
InitRetry == InitClient(MaxRetryExchanges) /\ InitIdleDecoder /\ isMuted = TRUE

NextRetry ==
    \/ \E raw \in TypedInputs : HandleTextInput(raw)
    \/ \E i \in 1..Len(retryButtons) : RetryLastMessage(i)
    \/ \E e \in ExchangeIds : FetchResponse(e, 429)
    \/ Advance(COOLDOWN_MS)

SpecRetry == InitRetry /\ [][NextRetry]_vars

\* Speech capture on its own, with more result events in a session; an
\* accepted exchange ends by a network failure.
NextCapture ==
    \/ MicClick
    \/ RecognitionStart
    \/ \E r \in ResultEvents \cup BlankEvents :
           RecognitionResultUpTo(r, MaxCaptureResults)
    \/ SilenceFires
    \/ RecognitionEnd
    \/ \E kind \in {"no-speech", "not-allowed"} : RecognitionError(kind)
    \/ Advance(SILENCE_TIMEOUT)
    \/ \E e \in ExchangeIds : FetchRejected(e)

SpecCapture == InitGate /\ [][NextCapture]_vars

\* The engine delivers its end event: every start, stop and error of the
\* recognition engine is followed by onend.  Nothing is assumed of the user.
FairSpecCapture == SpecCapture /\ WF_vars(RecognitionEnd)

\* Capture by backend transcription on its own; an accepted exchange ends by a
\* network failure.
NextRecorder ==
    \/ StartRecording
    \/ StopRecording
    \/ \E k \in RecordingIds : GetUserMediaResolved(k)
    \/ \E k \in RecordingIds : GetUserMediaRejected(k)
    \/ \E k \in RecordingIds, size \in DataSizes : MediaRecorderOnStop(k, size)
    \/ \E k \in RecordingIds, text \in TranscribedTexts : TranscribeResponse(k, text)
    \/ \E k \in RecordingIds : TranscribeFailed(k)
    \/ \E e \in ExchangeIds : FetchRejected(e)

SpecRecorder == InitGate /\ [][NextRecorder]_vars

\* The playback queue fed by the stream of typed exchanges, with the mute
\* button; the microphone is not used.
NextQueue ==
    \/ \E raw \in TypedInputs : HandleTextInput(raw)
    \/ \E e \in ExchangeIds : FetchResponse(e, 200)
    \/ \E e \in ExchangeIds, chunk \in Chunks : ReadChunk(e, chunk)
    \/ \E e \in ExchangeIds : ReadDone(e)
    \/ \E e \in ExchangeIds : ReadRejected(e)
    \/ Advance(COOLDOWN_MS)
    \/ AudioStarted
    \/ AudioPlayRejected
    \/ AudioPlayAborted
    \/ AudioEnded
    \/ AudioError
    \/ SynthEnd
    \/ ToggleMute

SpecQueue == Init /\ [][NextQueue]_vars

\* The playback queue fed by the reads of one reply, with the mute button.
NextPlayback ==
    \/ \E raw \in TypedInputs : HandleTextInput(raw)
    \/ \E e \in ExchangeIds : FetchResponse(e, 200)
    \/ \E e \in ExchangeIds, chunk \in Chunks :
           ReadChunkUpTo(e, chunk, MaxSegmentReads)
    \/ \E e \in ExchangeIds : ReadDone(e)
    \/ AudioStarted
    \/ AudioPlayRejected
    \/ AudioPlayAborted
    \/ AudioEnded
    \/ AudioError
    \/ SynthEnd
    \/ ToggleMute

SpecPlayback == InitSegments /\ [][NextPlayback]_vars

\* Playback makes progress: a loading element starts, a playing element ends,
\* an aborted play() promise is rejected, a spoken utterance ends.  Nothing is
\* assumed of the user, of the backend or of failures.
FairSpecQueue ==
    /\ SpecQueue
    /\ WF_vars(AudioStarted)
    /\ WF_vars(AudioEnded)
    /\ WF_vars(AudioPlayAborted)
    /\ WF_vars(SynthEnd)

\* ------------------------------------------------------------------ claims
Started == ExchangeIds \ FreeIds

UserMessages == SelectSeq(chatMessages, LAMBDA m : m.role = "user")

\* A step in which a call of sendMessageToAI passes the busy guard.
Accepting == InFlight' \ InFlight # {}

\* The fragments of a capture session joined by single spaces.
RECURSIVE JoinSpaced(_)
JoinSpaced(frags) ==
    IF frags = <<>> THEN <<>>
    ELSE Head(frags) \o <<" ">> \o JoinSpaced(Tail(frags))

\* What a capture session has heard: the final fragments in arrival order,
\* then the latest interim fragment, whitespace collapsed and trimmed.
Utterance(h) == Trim(CollapseWs(JoinSpaced(Append(h.finals, h.interim))))

\* C1: at most one chat exchange is in flight at any time, and one is in
\* flight only while the busy flag is set: a call of sendMessageToAI made while
\* the flag is set starts nothing.
C1_AtMostOneInFlight ==
    /\ Cardinality(InFlight) <= 1
    /\ InFlight # {} => isProcessing

\* A voice submission or a retry click arrived while an exchange was in flight:
\* its user message was added, and no second exchange was started.
C1_RejectedWhileBusy ==
    /\ Cardinality(InFlight) = 1
    /\ Cardinality(Started) = 1
    /\ Len(UserMessages) = 2

\* C2: whenever no exchange is in flight, every accepted exchange having
\* returned by whichever path, the busy flag is clear and the inputs enabled.
C2_CleanupOnEveryExit ==
    InFlight = {} => ~isProcessing /\ inputEnabled

\* An exchange was cancelled by the abort signal and has returned.
C2_ReturnedAfterAbort ==
    /\ lastExit.path = "AbortError"
    /\ InFlight = {}
    /\ ~isProcessing

\* C3: an exchange in flight, waiting for the response or reading the
\* stream, is covered by its timeout: its timer is pending or its signal is
\* already aborted.
C3_TimeoutCoversInFlight ==
    \A e \in InFlight : e \in aborted \/ \E t \in timeoutTimers : t.id = e

\* C4: no two segments are audible at the same time: an Audio element is
\* not playing while the fallback synthesis of an earlier segment is speaking.
C4_NoOverlap ==
    ~(currentAudio.state = "playing" /\ synth # <<>>)

\* C5: a response body cut into reads at arbitrary positions yields the
\* same text deltas and session-id updates, and the same final assistant
\* text, as the same bytes delivered in one read.
C5_ChunkBoundaryInvariance ==
    dDone => /\ dState.events = DecodeWhole(dBody).events
             /\ dState.aiFullText = DecodeWhole(dBody).aiFullText

\* C6: a submission of any origin is accepted only when at least
\* COOLDOWN_MS have passed since the previous accepted submission.
C6_CooldownForAllOrigins ==
    lastAccept.gap >= COOLDOWN_MS

\* C7: no utterance shorter than 2 characters is sent to the backend.
C7_MinimumLength ==
    \A e \in InFlight : Len(exchanges[e].message) >= 2

\* C8: every segment appended to the playback queue is eventually dequeued.
C8_EverySegmentDequeued ==
    (audioQueue # <<>>) ~> (audioQueue = <<>>)

\* C9: while the client is muted no segment is playing and no fallback
\* synthesis is speaking.
C9_SilentWhileMuted ==
    isMuted => synth = <<>> /\ currentAudio.state # "playing"

\* C10: the playing flag of the queue is never left set forever, so
\* segments appended after an unmute are played.
C10_PlayingFlagReleased ==
    isPlayingAudio ~> ~isPlayingAudio

\* C11: when a new exchange is accepted, the audio and the speech synthesis of
\* the previous turn are stopped and the playback queue is emptied.
C11_StopsPreviousTurn ==
    [][Accepting => /\ audioQueue' = <<>>
                    /\ synth' = <<>>
                    /\ currentAudio'.state \notin {"loading", "playing"}]_vars

\* The payload of an event block as the stream carries it: what follows
\* "data: " on the block's data row, with nothing removed.
BlockPayload(block) ==
    LET rows == Split(block, <<NL>>)
        ds   == {i \in 1..Len(rows) : StartsWith(rows[i], S_DATA)}
    IN IF ds = {} THEN <<>>
       ELSE SubSeq(rows[SetMax(ds)], Len(S_DATA) + 1, Len(rows[SetMax(ds)]))

\* The payloads of the text-delta events of a sequence of blocks, in order
\* and joined.
RECURSIVE VerbatimDeltas(_)
VerbatimDeltas(blocks) ==
    IF blocks = <<>> THEN <<>>
    ELSE LET p == BlockPayload(Head(blocks))
             delta == IF \/ ParseBlock(Head(blocks)).eventType = S_SESSION_ID
                         \/ Trim(p) = <<>>
                         \/ Trim(p) = S_DONE
                      THEN <<>> ELSE p
         IN delta \o VerbatimDeltas(Tail(blocks))

\* C12: once the stream has ended, and the reads delivered the events of the
\* body, the rendered assistant text is the concatenation in arrival order of
\* the payloads of the text-delta events, each with its whitespace kept.
C12_VerbatimConcatenation ==
    (dDone /\ dState.events = DecodeWhole(dBody).events)
        => dState.aiFullText = VerbatimDeltas(Split(dBody, <<NL, NL>>))

\* C13: a voice submission accepted while the client is listening carries the
\* final fragments of the session in arrival order followed by the latest
\* interim fragment, with whitespace collapsed and trimmed.
C13_FinalsThenInterim ==
    [][(Accepting /\ isListening /\ lastAccept'.origin = "voice")
           => lastAccept'.text = Utterance(heard)]_vars

C13_SubmittedFinalAndInterim ==
    /\ lastAccept.origin = "voice"
    /\ lastAccept.text = <<"I", " ", "I", " ", "o", "k">>

\* C14: when the recognition engine ends while the client is listening and
\* idle at the gate, whatever the session has heard, final or interim, is
\* submitted.
C14_EngineEndSubmits ==
    [][(recognition # "idle" /\ recognition' = "idle" /\ isListening
           /\ ~isProcessing /\ Utterance(heard) # <<>>) => Accepting]_vars

\* C15: a call of submitVoiceInput that follows another with no result event
\* in between submits nothing and leaves the capture state as the first call
\* left it.
C15_StopIdempotent ==
    [][(heard.stops >= 1 /\ heard'.stops = heard.stops + 1)
           => /\ ~Accepting
              /\ UNCHANGED <<chatMessages, exchanges, isProcessing, isListening,
                             transcriptBuffer, latestInterim, recognition>>]_vars

C15_StoppedTwice ==
    /\ heard.stops = 2
    /\ lastAccept.origin = "voice"
    /\ ~isListening

\* C16: a failed exchange shows the error code of its cause and no other:
\* ERR_TIMEOUT exactly when it was aborted by the timeout, ERR_429 exactly for
\* status 429, ERR_503 exactly for status 503, and ERR_<status> for any other
\* status that is not 2xx.
C16_ErrorKindOfCause ==
    /\ lastExit.path = "AbortError" <=> lastExit.shown = "ERR_TIMEOUT"
    /\ lastExit.status = 429 <=> lastExit.shown = "ERR_429"
    /\ lastExit.status = 503 <=> lastExit.shown = "ERR_503"
    /\ lastExit.status \notin {0, 200, 429, 503}
           => lastExit.shown = "ERR_" \o ToString(lastExit.status)

C16_OverloadSurfaced ==
    /\ lastExit.status = 503
    /\ lastExit.shown = "ERR_503"
    /\ Len(retryButtons) = 1

\* C17: a click on a retry button, made while the gate is idle and after some
\* submission has been accepted, starts an exchange with the text of the most
\* recently accepted submission.
C17_RetryResubmitsLast ==
    [][(Len(retryButtons') < Len(retryButtons) /\ ~isProcessing
           /\ lastAccept.origin # "none")
           => (Accepting /\ lastAccept'.text = lastAccept.text)]_vars

\* C18: a retry button whose click has started an exchange starts no other.
C18_RetryOneShot ==
    [][\A i \in 1..Len(retryButtons) :
           (RetryLastMessage(i) /\ retryButtons[i] >= 1) => ~Accepting]_vars

\* The payloads of the session-id events a response body carries.
SessionPayloads(body) ==
    LET blocks == Split(body, <<NL, NL>>)
    IN {Trim(BlockPayload(blocks[i])) :
           i \in {j \in 1..Len(blocks) :
                      ParseBlock(blocks[j]).eventType = S_SESSION_ID}} \ {<<>>}

\* C19: while a response is decoded the session id is the one the client had
\* or the payload of a session-id event of the response, and no text delta
\* appended to the assistant text is the payload of a session-id event.
C19_SessionIdOnlyByEvent ==
    /\ dState.sessionId \in SessionPayloads(dBody) \cup {NULL}
    /\ \A i \in 1..Len(dState.events) :
           dState.events[i][1] = "text"
               => dState.events[i][2] \notin SessionPayloads(dBody)

\* C20: the session id the client reads from localStorage when it starts
\* again is the session id it held when it was closed.
C20_SessionIdPersists ==
    [][Restart => sessionId' = sessionId]_vars

\* C21: a capture session is started only while no exchange is in flight, and
\* a typed or retried submission is accepted only while no capture session is
\* listening.
C21_CaptureExcludesExchange ==
    [][/\ (recognition = "idle" /\ recognition' = "starting") => ~isProcessing
       /\ (Accepting /\ lastAccept'.origin \in {"typed", "retry"}) => ~isListening]_vars

\* The event type of a block as the stream carries it: the type named on the
\* block's last event row, 'message' when the block has none.
BlockEventType(block) ==
    LET rows == Split(block, <<NL>>)
        es   == {i \in 1..Len(rows) : StartsWith(rows[i], S_EVENT)}
    IN IF es = {} THEN S_MESSAGE
       ELSE Trim(SubSeq(rows[SetMax(es)], Len(S_EVENT) + 1, Len(rows[SetMax(es)])))

\* The payloads of all the data rows of a block, in order and joined.
RECURSIVE JoinDataRows(_)
JoinDataRows(rows) ==
    IF rows = <<>> THEN <<>>
    ELSE (IF StartsWith(Head(rows), S_DATA)
          THEN Trim(SubSeq(Head(rows), Len(S_DATA) + 1, Len(Head(rows))))
          ELSE <<>>) \o JoinDataRows(Tail(rows))

BlockData(block) == JoinDataRows(Split(block, <<NL>>))

\* The text a sequence of blocks carries when every block's payload is the
\* join of its data rows.
RECURSIVE JoinedDeltas(_)
JoinedDeltas(blocks) ==
    IF blocks = <<>> THEN <<>>
    ELSE LET p == BlockData(Head(blocks))
             delta == IF \/ BlockEventType(Head(blocks)) = S_SESSION_ID
                         \/ p = <<>>
                         \/ p = S_DONE
                      THEN <<>> ELSE p
         IN delta \o JoinedDeltas(Tail(blocks))

\* C22: once the stream has ended, and the reads delivered the events of the
\* body, the assistant text is what the blocks carry when each block's payload
\* is the concatenation of all its data rows in order and its event type is
\* that of its last event row, 'message' when it has none.
C22_BlockJoinsDataRows ==
    (dDone /\ dState.events = DecodeWhole(dBody).events)
        => dState.aiFullText = JoinedDeltas(Split(dBody, <<NL, NL>>))

\* C23: when the stream completes while the client is unmuted, the residue of
\* the sentence buffer, if it is not blank, is appended to the playback queue
\* as exactly one segment (and handed to the player at once when nothing is
\* playing); when the residue is blank the queue is left as it was.
C23_FinalFlushOnce ==
    [][\A e \in ExchangeIds :
          (/\ exchanges[e].pc = "read"
           /\ exchanges'[e].pc = "done"
           /\ lastExit'.path = "ok"
           /\ ~isMuted)
          => LET residue == exchanges[e].sentenceBuffer
                 q == Append(audioQueue, residue)
             IN IF Trim(residue) = <<>>
                THEN UNCHANGED <<audioQueue, currentAudio, isPlayingAudio>>
                ELSE IF isPlayingAudio
                THEN /\ audioQueue' = q
                     /\ UNCHANGED <<currentAudio, isPlayingAudio>>
                ELSE /\ audioQueue' = Tail(q)
                     /\ currentAudio' = [text |-> Head(q), state |-> "loading",
                                         settled |-> FALSE]
                     /\ isPlayingAudio']_vars

\* The stream has completed and its residue "xy", which no sentence end
\* followed, is what the player loads.
C23_ResidueQueued ==
    /\ lastExit.path = "ok"
    /\ ~isMuted
    /\ currentAudio.text = <<"x", "y">>
    /\ currentAudio.state = "loading"

\* The segments can be laid over the text from position `from` on, each at a
\* place after the one before it: each is searched at its leftmost place.
RECURSIVE InTextOrder(_, _, _)
InTextOrder(segs, text, from) ==
    IF segs = <<>> THEN TRUE
    ELSE LET s  == Head(segs)
             ps == {p \in from..(Len(text) - Len(s) + 1) :
                        SubSeq(text, p, p + Len(s) - 1) = s}
         IN /\ ps # {}
            /\ InTextOrder(Tail(segs), text, SetMin(ps) + Len(s))

\* C24: whatever the text deltas and the mute toggles of an exchange, the
\* segments it has pushed to the playback queue are contiguous pieces of its
\* assistant text, in text order and without overlap.
C24_SegmentsInTextOrder ==
    \A e \in ExchangeIds :
        exchanges[e].pc = "read"
            => InTextOrder(exchanges[e].pushed, exchanges[e].aiFullText, 1)

\* C25: when a listening capture session is finalized, by a call of
\* submitVoiceInput or by the engine's end, and the engine has delivered
\* nothing but white space since the session started, the client stops
\* listening, appends no user message and starts no exchange.
C25_EmptyCaptureSubmitsNothing ==
    [][(/\ isListening
        /\ \/ heard'.stops = heard.stops + 1
           \/ recognition # "idle" /\ recognition' = "idle"
        /\ Utterance(heard) = <<>>)
       => /\ ~isListening'
          /\ ~Accepting
          /\ chatMessages' = chatMessages
          /\ exchanges' = exchanges]_vars

\* A session that heard one blank result has been stopped by the microphone
\* button, and nothing was submitted.
C25_BlankSessionStopped ==
    /\ heard.stops = 1
    /\ results = 1
    /\ ~isListening
    /\ chatMessages = <<>>
    /\ lastAccept.origin = "none"

\* s is an initial part of t.
IsPrefix(s, t) == Len(s) <= Len(t) /\ SubSeq(t, 1, Len(s)) = s

\* C26: during a session a step changes the stored message list only by
\* appending one message to it; while a reply is being read its text only
\* grows at its end; and an assistant message is stored only on the step on
\* which a stream completes, once, holding the whole text of that reply.
C26_MessagesAppendOnly ==
    [][/\ \/ chatMessages' = chatMessages
          \/ /\ Len(chatMessages') = Len(chatMessages) + 1
             /\ IsPrefix(chatMessages, chatMessages')
       /\ \A e \in ExchangeIds :
             /\ (exchanges[e].pc = "read" /\ exchanges'[e].pc = "read")
                    => IsPrefix(exchanges[e].aiFullText, exchanges'[e].aiFullText)
             /\ (/\ exchanges[e].pc = "read"
                 /\ exchanges'[e].pc = "done"
                 /\ lastExit'.path = "ok"
                 /\ exchanges[e].aiFullText # <<>>)
                    => chatMessages' = Append(chatMessages,
                           [role |-> "ai", text |-> exchanges[e].aiFullText])
       /\ (/\ chatMessages' # chatMessages
           /\ chatMessages'[Len(chatMessages')].role = "ai")
              => \E e \in ExchangeIds : /\ exchanges[e].pc = "read"
                                        /\ exchanges'[e].pc = "done"
                                        /\ lastExit'.path = "ok"]_vars

\* A reply that grew over two reads is stored whole after the user's message.
C26_GrownReplyStored ==
    /\ Len(chatMessages) = 2
    /\ chatMessages[1].role = "user"
    /\ chatMessages[2] = [role |-> "ai", text |-> <<"x", "y">>]

\* C27: every recognition result resets the silence deadline: at most one
\* silence timer is pending, a pending timer is the one armed by the latest
\* result event, and the timer that fires is the one armed by the latest
\* result, after its whole window has run.
C27_OneSilenceTimer ==
    [][/\ Cardinality(silenceTimers') <= 1
       /\ \A t \in silenceTimers' : t.id = results'
       /\ SilenceFires => \A t \in silenceTimers \ silenceTimers' :
                               t.id = results /\ t.left = 0]_vars

\* A second result has replaced the timer of the first, and the window of the
\* new timer has run out.
C27_SecondTimerDue ==
    /\ results = 2
    /\ silenceTimers = {[id |-> 2, left |-> 0, live |-> TRUE]}
    /\ isListening

\* C28: once the engine has been stopped or has reported an error, be it the
\* denial of the microphone, the client is not listening; the engine then
\* comes to rest; and a click on the microphone button while it rests starts a
\* new capture session.
C28_CaptureRestartable ==
    /\ [](recognition \in {"idle", "stopping"} => ~isListening)
    /\ (recognition = "stopping") ~> (recognition = "idle")
    /\ [][(MicClick /\ recognition = "idle") => recognition' = "starting"]_vars

\* The engine has reported an error before anything was heard or stopped.
C28_EngineFailed ==
    /\ recognition = "stopping"
    /\ ~isListening
    /\ heard.stops = 0
    /\ results = 0

\* C29: the busy flag is raised only on a step on which sendMessageToAI
\* accepts a submission, and lowered only on a step on which the exchange in
\* flight returns; every other step, a rejected call included, leaves it as
\* it was.
C29_BusyFlagOnlyByGate ==
    [][/\ (~isProcessing /\ isProcessing') => Accepting
       /\ (isProcessing /\ ~isProcessing')
              => \E e \in InFlight : exchanges'[e].pc = "done"]_vars

\* While a typed exchange is in flight a spoken utterance was submitted and
\* rejected: its message is in the list, the flag is still set.
C29_VoiceRejectedWhileBusy ==
    /\ isProcessing
    /\ InFlight # {}
    /\ heard.stops = 1
    /\ lastAccept.origin = "typed"
    /\ Len(UserMessages) = 2
    /\ chatMessages[Len(chatMessages)].role = "user"

\* C30: the startup call is issued only by initApp, only when no conversation
\* was restored, and is answered at most once per page load; when a stored
\* conversation is restored initApp issues no call and leaves the message list
\* and the session id as the script read them; the startup response sets the
\* session id and appends the welcome message.
C30_StartupOnlyWhenFresh ==
    [][/\ (InitApp /\ chatMessages # <<>>)
              => /\ startup' = "restored"
                 /\ UNCHANGED <<chatMessages, sessionId, localStorage>>
       /\ (startup # "pending" /\ startup' = "pending")
              => (InitApp /\ chatMessages = <<>>)
       /\ (startup = "pending" /\ startup' = "done")
              => /\ sessionId' \in StartupIds
                 /\ chatMessages' = Append(chatMessages,
                                           [role |-> "ai", text |-> <<"w">>])
       /\ startup \in {"restored", "done", "failed"}
              => startup' \in {startup, "loading"}]_vars

\* The page was loaded again and the welcome message of the load before was
\* restored instead of a new startup call.
C30_WelcomeRestored ==
    /\ startup = "restored"
    /\ chatMessages = <<[role |-> "ai", text |-> <<"w">>]>>
    /\ sessionId = <<"u", "1">>

\* C31: a timeout timer that fires aborts no exchange but the one it was
\* armed for.
C31_TimerAbortsOwnExchange ==
    [][\A t \in timeoutTimers :
          TimeoutFires(t) => (aborted' \ aborted) \subseteq {t.id}]_vars

\* C32: a silence timer armed while a capture session was listening acts on
\* that session only: when it fires after the session has ended it submits
\* nothing, and no silence timer is pending when a new session starts.
C32_SilenceTimerOwnSession ==
    [][/\ \A t \in silenceTimers :
             (SilenceFires /\ t \notin silenceTimers' /\ t.live /\ ~isListening)
                 => (~Accepting /\ chatMessages' = chatMessages)
       /\ RecognitionStart => silenceTimers = {}]_vars

\* C33: a capture session produces at most one submission, whichever of the
\* microphone click, the silence timer and the engine's end call
\* submitVoiceInput and in whatever order, also when the engine delivers a
\* further result after the stop.
C33_OneSubmissionPerSession ==
    heard.sent <= 1

\* C34: a user message is appended to the conversation only on a step on
\* which the gate accepts the submission, so every user message was sent.
C34_UserMessageOnlyIfAccepted ==
    [][Len(UserMessages') > Len(UserMessages) => Accepting]_vars

\* C35: a typed submission refused by a guard (cooldown, text shorter than 2
\* characters, exchange in flight) leaves the busy flag, the time of the last
\* request, the retained last utterance and the message list as they were;
\* the cooldown window is not restarted.
C35_RefusedTypedChangesNothing ==
    [][(lastAccept'.refused # "none" /\ lastAccept'.refused # lastAccept.refused)
          => UNCHANGED <<isProcessing, sinceLastRequest, lastUserText,
                         chatMessages, exchanges>>]_vars

\* A submission was refused inside the cooldown window of an accepted one,
\* whose exchange has returned.
C35_Witness ==
    /\ lastAccept.refused = "cooldown"
    /\ lastAccept.origin = "typed"
    /\ sinceLastRequest < COOLDOWN_MS
    /\ ~isProcessing

AiMessages == SelectSeq(chatMessages, LAMBDA m : m.role = "ai")

\* C36: an exchange that fails, also after text deltas were rendered, stores
\* no assistant message: the step on which it fails leaves the message list
\* as it is, the list is then as it was when the exchange was accepted, and
\* an assistant message is stored only on the step on which a stream
\* completes.
C36_FailedExchangeStoresNothing ==
    [][/\ \A e \in ExchangeIds :
             (/\ exchanges[e].pc \in {"fetch", "read"}
              /\ exchanges'[e].pc = "done"
              /\ lastExit'.path # "ok")
                 => /\ chatMessages' = chatMessages
                    /\ Len(chatMessages) = exchanges[e].listLen
       /\ AiMessages' # AiMessages
             => \E e \in ExchangeIds : /\ exchanges[e].pc = "read"
                                       /\ exchanges'[e].pc = "done"
                                       /\ lastExit'.path = "ok"]_vars

\* C37: at most one segment is being processed by the playback queue at any
\* time, and every pushed segment is shifted off the queue exactly once: a
\* playback is pending exactly while isPlayingAudio is set, the segments
\* pushed are those shifted off plus those still queued, and no more
\* playbacks were started than segments were shifted off.
C37_OneSegmentAtATime ==
    /\ queueLog.played - queueLog.settled = (IF isPlayingAudio THEN 1 ELSE 0)
    /\ isPlayingAudio <=> ~currentAudio.settled
    /\ queueLog.pushed = queueLog.shifted + Len(audioQueue)
    /\ queueLog.played <= queueLog.shifted

\* processAudioQueue was called for a second and a third segment while the
\* playback of the first was pending: both are still queued.
C37_QueuedBehindPlayback ==
    /\ isPlayingAudio
    /\ currentAudio.state = "playing"
    /\ queueLog = [pushed |-> 3, shifted |-> 1, played |-> 1, settled |-> 0]
    /\ Len(audioQueue) = 2

\* C38: in the capture path with backend transcription the listening flag is
\* true exactly while a recorder is recording, and at most one recorder is
\* recording at a time.
C38_ListeningIffRecording ==
    /\ Cardinality(Recording) <= 1
    /\ isListening <=> Recording # {}

\* C39: in the capture path with backend transcription every recording that
\* was stopped ends with the listening flag cleared and the tracks of its
\* stream stopped, whichever way its stop handler returns.
C39_StoppedRecordingReleased ==
    [][\A k \in RecordingIds :
          (recordings[k].pc \in {"stopping", "transcribing"}
           /\ recordings'[k].pc = "done")
              => (~isListening' /\ recordings'[k].tracks = "stopped")]_vars

====
